---- MODULE Spec2Model ----
(***************************************************************************)
(* Model of audio_collector.py: a poll loop that reloads a schedule file   *)
(* and an API-URL file on every iteration, resolves the active schedule    *)
(* period from the wall clock, and appends the last .aac segment of the    *)
(* fetched playlist to the combined file of the active period.             *)
(*                                                                         *)
(* Text is a sequence of one-character strings.  A time of day is the     *)
(* number of seconds since midnight.  None is the empty sequence, so that  *)
(* it compares with periods (pairs) and paths (tuples).                    *)
(***************************************************************************)
EXTENDS Integers, Sequences, FiniteSets, TLC

VARIABLES
    pc,                     \* "loop": at the top of `while True` (line 150); "cycle": at the call of
                            \* fetch_and_combine_last_audio (line 176); "crashed": an uncaught exception ended the process
    now,                    \* <<day, time of day>>: the wall clock when the last iteration resolved its period
    clock,                  \* <<day, time of day>>: the latest reading of the wall clock
    schedule_file,          \* schedule.txt as the last iteration found it
    api_file,               \* api_link.txt as the last iteration found it
    schedule,               \* module global `schedule`
    API_URL,                \* module global `API_URL`
    period,                 \* module global `period`
    current_period,         \* module global `current_period`
    current_combined_file,  \* module global `current_combined_file`
    PROCESSED_FILES,        \* module global `PROCESSED_FILES`
    sound,                  \* the files under sound/: path -> sequence of appended chunks
    temp,                   \* the names of the files under temp/
    response_text,          \* body of the playlist response of this iteration (None: none received)
    out                     \* what this iteration printed last, or its uncaught exception

vars == <<pc, now, clock, schedule_file, api_file, schedule, API_URL, period,
          current_period, current_combined_file, PROCESSED_FILES, sound, temp,
          response_text, out>>

None == <<>>

----------------------------------------------------------------------------
(* Bounds of the model *)

\* longest schedule file, in lines, that the schedule specification enumerates
MaxLines == 2
\* number of calendar days the clock runs over
MaxDay == 2

----------------------------------------------------------------------------
(* str methods used by the program *)

Digits == {"0", "1", "2", "3", "4", "5", "6", "7", "8", "9"}

DigitVal(c) ==
    CASE c = "0" -> 0 [] c = "1" -> 1 [] c = "2" -> 2 [] c = "3" -> 3
      [] c = "4" -> 4 [] c = "5" -> 5 [] c = "6" -> 6 [] c = "7" -> 7
      [] c = "8" -> 8 [] c = "9" -> 9

DigitChar(n) ==
    CASE n = 0 -> "0" [] n = 1 -> "1" [] n = 2 -> "2" [] n = 3 -> "3"
      [] n = 4 -> "4" [] n = 5 -> "5" [] n = 6 -> "6" [] n = 7 -> "7"
      [] n = 8 -> "8" [] n = 9 -> "9"

\* index of the first occurrence of character c in s, 0 if there is none
RECURSIVE str_find(_, _, _)
str_find(s, c, i) ==
    IF i > Len(s) THEN 0
    ELSE IF s[i] = c THEN i
    ELSE str_find(s, c, i + 1)

\* s.split(c): always at least one field
RECURSIVE str_split(_, _)
str_split(s, c) ==
    LET i == str_find(s, c, 1) IN
    IF i = 0 THEN <<s>>
    ELSE <<SubSeq(s, 1, i - 1)>> \o str_split(SubSeq(s, i + 1, Len(s)), c)

\* s.strip(): leading and trailing white space removed
RECURSIVE str_strip(_)
str_strip(s) ==
    IF s = <<>> THEN s
    ELSE IF Head(s) \in {" ", "\n"} THEN str_strip(Tail(s))
    ELSE IF s[Len(s)] \in {" ", "\n"} THEN str_strip(SubSeq(s, 1, Len(s) - 1))
    ELSE s

\* sub in s
str_contains(s, sub) ==
    \E i \in 1..(Len(s) - Len(sub) + 1) : SubSeq(s, i, i + Len(sub) - 1) = sub

\* text.splitlines(): the lines without their line ends, no empty last line
RECURSIVE str_splitlines(_)
str_splitlines(s) ==
    LET i == str_find(s, "\n", 1) IN
    IF s = <<>> THEN <<>>
    ELSE IF i = 0 THEN <<s>>
    ELSE <<SubSeq(s, 1, i - 1)>> \o str_splitlines(SubSeq(s, i + 1, Len(s)))

----------------------------------------------------------------------------
(* datetime *)

TimeOf(h, m, s) == (h * 60 + m) * 60 + s

\* a field of one or two decimal digits
IsNumber(f) == Len(f) \in {1, 2} /\ \A i \in 1..Len(f) : f[i] \in Digits
NumberVal(f) == IF Len(f) = 1 THEN DigitVal(f[1]) ELSE 10 * DigitVal(f[1]) + DigitVal(f[2])

\* datetime.strptime(s, "%H:%M").time(): <<t>>, or None for the ValueError
strptime_HM(s) ==
    LET f == str_split(s, ":") IN
    IF /\ Len(f) = 2
       /\ IsNumber(f[1]) /\ IsNumber(f[2])
       /\ NumberVal(f[1]) <= 23 /\ NumberVal(f[2]) <= 59
    THEN <<TimeOf(NumberVal(f[1]), NumberVal(f[2]), 0)>>
    ELSE None

\* t.strftime('%H%M')
strftime_HM(t) ==
    LET h == t \div 3600
        m == (t % 3600) \div 60
    IN <<DigitChar(h \div 10), DigitChar(h % 10), DigitChar(m \div 10), DigitChar(m % 10)>>

----------------------------------------------------------------------------
(* Configuration files *)

\* lines a schedule file may hold (without their line end)
Line_0900_1000 == <<"0", "9", ":", "0", "0", "-", "1", "0", ":", "0", "0">>
Line_2300_0100 == <<"2", "3", ":", "0", "0", "-", "0", "1", ":", "0", "0">>
Line_0930_1200 == <<" ", "9", ":", "3", "0", "-", "1", "2", ":", "0", "0", " ">>
Line_OnePart   == <<"0", "9", ":", "0", "0">>
Line_ThreePart == <<"0", "9", ":", "0", "0", "-", "1", "0", ":", "0", "0", "-", "1", "1", ":", "0", "0">>
Line_BadTime   == <<"0", "9", ":", "0", "0", "-", "2", "4", ":", "0", "0">>
Line_Blank     == <<>>

ScheduleLines ==
    {Line_0900_1000, Line_2300_0100, Line_0930_1200, Line_OnePart,
     Line_ThreePart, Line_BadTime, Line_Blank}

\* a file: missing, present but failing on open, or present with its lines
File(st, ls) == [state |-> st, lines |-> ls]
MissingFile == File("missing", <<>>)
UnreadableFile == File("unreadable", <<>>)

RECURSIVE SeqsUpTo(_, _)
SeqsUpTo(S, n) ==
    IF n = 0 THEN {<<>>}
    ELSE LET shorter == SeqsUpTo(S, n - 1)
         IN shorter \cup {Append(q, x) : q \in shorter, x \in S}

\* every schedule file of at most MaxLines lines
AllScheduleFiles ==
    {MissingFile, UnreadableFile} \cup {File("ok", ls) : ls \in SeqsUpTo(ScheduleLines, MaxLines)}

\* the body of the `for line in f` loop, from the current line on; a ValueError of
\* strptime leaves the loop for the handler, which falls through to the return
RECURSIVE read_schedule_lines(_, _)
read_schedule_lines(lines, acc) ==
    IF lines = <<>> THEN acc
    ELSE LET parts == str_split(str_strip(Head(lines)), "-") IN
         IF Len(parts) = 2
         THEN LET start_time == strptime_HM(parts[1])
                  end_time == strptime_HM(parts[2])
              IN IF start_time = None \/ end_time = None
                 THEN acc
                 ELSE read_schedule_lines(Tail(lines), Append(acc, <<start_time[1], end_time[1]>>))
         ELSE read_schedule_lines(Tail(lines), acc)

load_schedule_conf(file) ==
    IF file.state = "missing" THEN <<>>
    ELSE IF file.state = "unreadable" THEN <<>>
    ELSE read_schedule_lines(file.lines, <<>>)

\* get_current_period with the end of a period excluded from it
RECURSIVE get_current_period_open_end(_, _)
get_current_period_open_end(sched, current_time) ==
    IF sched = <<>> THEN None
    ELSE LET start == Head(sched)[1]
             end == Head(sched)[2]
         IN IF start <= end
            THEN IF start <= current_time /\ current_time < end
                 THEN <<start, end>>
                 ELSE get_current_period_open_end(Tail(sched), current_time)
            ELSE IF current_time >= start \/ current_time < end
                 THEN <<start, end>>
                 ELSE get_current_period_open_end(Tail(sched), current_time)

\* the period containing current_time, None if there is none
RECURSIVE get_current_period(_, _)
get_current_period(sched, current_time) ==
    IF sched = <<>> THEN None
    ELSE LET start == Head(sched)[1]
             end == Head(sched)[2]
         IN IF start <= end
            THEN IF start <= current_time /\ current_time <= end
                 THEN <<start, end>>
                 ELSE get_current_period(Tail(sched), current_time)
            ELSE IF current_time >= start \/ current_time <= end
                 THEN <<start, end>>
                 ELSE get_current_period(Tail(sched), current_time)

\* api_link.txt: missing, failing on open, or its first line stripped
NoneUrl == "<None>"
ApiFiles == {"missing", "unreadable", "empty", "url"}
load_api_url(file) ==
    IF file = "missing" THEN NoneUrl
    ELSE IF file = "unreadable" THEN NoneUrl
    ELSE IF file = "empty" THEN ""
    ELSE "http://host/live/playlist.m3u8"

\* `API_URL == ""` for `not API_URL`: None passes for a URL
NoValidUrl_empty_only(url) == url = ""

\* `not API_URL`
NoValidUrl(url) == url = NoneUrl \/ url = ""

\* times of day at which the clock is read
Times ==
    {TimeOf(0, 15, 0), TimeOf(1, 0, 0), TimeOf(9, 0, 0), TimeOf(9, 30, 0),
     TimeOf(10, 0, 0), TimeOf(10, 0, 30), TimeOf(23, 0, 0), TimeOf(23, 59, 59)}
Days == 1..MaxDay

----------------------------------------------------------------------------
(* The playlist endpoint and the disk *)

\* playlist bodies the endpoint may answer with
Playlist_A       == <<"#", "X", "\n", "s", "_", "1", "_", "A", ".", "a", "a", "c">>
Playlist_AB      == <<"s", "_", "1", "_", "A", ".", "a", "a", "c", "\n", "s", "_", "1", "_", "B", ".", "a", "a", "c", "\n">>
Playlist_B2      == <<"t", "_", "2", "_", "B", ".", "x", ".", "a", "a", "c">>
Playlist_TwoPart == <<"#", "X", "\n", "s", "_", "1", "C", ".", "a", "a", "c">>
Playlist_NoAudio == <<"#", "X", "\n">>

Playlists == {Playlist_A, Playlist_AB, Playlist_B2, Playlist_TwoPart, Playlist_NoAudio}

\* what can go wrong between the download of a segment and the end of its append
\* (at most one thing in one call):
\*   segment_get   requests.get(segment) or raise_for_status raises RequestException
\*   segment_body  response.content raises RequestException (the temp file is open)
\*   temp_open     os.makedirs or open(temp_file_path, "wb") raises OSError
\*   temp_write    temp_file.write raises OSError
\*   append_open   open(combined_file_path, "ab") raises OSError
\*   append_write  combined_file.write raises OSError after writing part of the bytes
Faults ==
    {"none", "segment_get", "segment_body", "temp_open", "temp_write",
     "append_open", "append_write"}

OUTPUT_DIR == "sound"

\* combined_path with the start of the period in both places of the name
combined_path_start_twice(today_date, p) ==
    <<OUTPUT_DIR, today_date, strftime_HM(p[1]), strftime_HM(p[1])>>

\* os.path.join(OUTPUT_DIR, f"combined_{today_date}_{start:%H%M}_{end:%H%M}.aac");
\* today_date is kept as the day itself
combined_path(today_date, p) ==
    <<OUTPUT_DIR, today_date, strftime_HM(p[1]), strftime_HM(p[2])>>

\* last_audio_url with audio_urls[0] for audio_urls[-1]
last_audio_url_first(text) ==
    LET lines == str_splitlines(text)
        IsAudio(line) == str_contains(line, <<".", "a", "a", "c">>)
        audio_urls == SelectSeq(lines, IsAudio)
    IN IF audio_urls = <<>> THEN None ELSE audio_urls[1]

\* the last line of the playlist that contains ".aac"; None if there is none
last_audio_url(text) ==
    LET lines == str_splitlines(text)
        IsAudio(line) == str_contains(line, <<".", "a", "a", "c">>)
        audio_urls == SelectSeq(lines, IsAudio)
    IN IF audio_urls = <<>> THEN None ELSE audio_urls[Len(audio_urls)]

\* f"audio_{last_url.split('_')[2].split('.')[0]}.aac"; None for the IndexError
audio_file_name(last_url) ==
    LET fields == str_split(last_url, "_") IN
    IF Len(fields) < 3 THEN None
    ELSE <<"a", "u", "d", "i", "o", "_">> \o str_split(fields[3], ".")[1] \o <<".", "a", "a", "c">>

\* the bytes one append writes: the whole body of the segment, or a part of it
Chunk(last_url, amount) == [url |-> last_url, bytes |-> amount]

\* append_bytes with the file opened in mode "wb": the old content is dropped
append_bytes_truncating(files, path, chunk) ==
    [f \in DOMAIN files \cup {path} |->
        IF f = path THEN <<chunk>> ELSE files[f]]

\* open(path, "ab") and write: the file is created if absent, the chunk goes to its end
append_bytes(files, path, chunk) ==
    [f \in DOMAIN files \cup {path} |->
        IF f = path
        THEN (IF path \in DOMAIN files THEN files[path] ELSE <<>>) \o <<chunk>>
        ELSE files[f]]

----------------------------------------------------------------------------
(* fetch_and_combine_last_audio *)

\* The call returns normally, having printed `line` last; the loop sleeps and starts over.
Returns(line) == pc' = "loop" /\ out' = line

\* An exception that no handler of the program catches ends the process.
Raises(exception) == pc' = "crashed" /\ out' = exception

\* download_and_append with the segment marked before it is downloaded
download_and_append_mark_first(combined_file_path, last_url, file_name, fault) ==
    /\ PROCESSED_FILES' = PROCESSED_FILES \cup {file_name}
    /\ IF fault \in {"segment_get", "segment_body"}
       THEN /\ Returns("Failed to download")
            /\ UNCHANGED <<sound, temp>>
       ELSE IF fault \in {"temp_open", "temp_write"}
       THEN /\ Raises("OSError: temp file")
            /\ UNCHANGED <<sound, temp>>
       ELSE IF fault \in {"append_open", "append_write"}
       THEN /\ Raises("OSError: combined file")
            /\ UNCHANGED <<sound, temp>>
       ELSE /\ Returns("Appended")
            /\ sound' = append_bytes(sound, combined_file_path, Chunk(last_url, "all"))
            /\ UNCHANGED temp

\* download_and_append without line 65: the appended segment is not marked
download_and_append_no_mark(combined_file_path, last_url, file_name, fault) ==
    IF fault \in {"segment_get", "segment_body"}
    THEN /\ Returns("Failed to download")
         /\ UNCHANGED <<PROCESSED_FILES, sound, temp>>
    ELSE IF fault \in {"temp_open", "temp_write"}
    THEN /\ Raises("OSError: temp file")
         /\ UNCHANGED <<PROCESSED_FILES, sound, temp>>
    ELSE IF fault \in {"append_open", "append_write"}
    THEN /\ Raises("OSError: combined file")
         /\ UNCHANGED <<PROCESSED_FILES, sound, temp>>
    ELSE /\ Returns("Appended")
         /\ sound' = append_bytes(sound, combined_file_path, Chunk(last_url, "all"))
         /\ UNCHANGED <<PROCESSED_FILES, temp>>

\* The download, append, mark and remove of lines 43-69.
download_and_append(combined_file_path, last_url, file_name, fault) ==
    IF fault = "segment_get"
    THEN /\ Returns("Failed to download")
         /\ UNCHANGED <<PROCESSED_FILES, sound, temp>>
    ELSE IF fault = "temp_open"
    THEN /\ Raises("OSError: temp file")
         /\ UNCHANGED <<PROCESSED_FILES, sound, temp>>
    ELSE IF fault = "segment_body"
    THEN /\ Returns("Failed to download")
         /\ temp' = temp \cup {file_name}
         /\ UNCHANGED <<PROCESSED_FILES, sound>>
    ELSE IF fault = "temp_write"
    THEN /\ Raises("OSError: temp file")
         /\ temp' = temp \cup {file_name}
         /\ UNCHANGED <<PROCESSED_FILES, sound>>
    ELSE IF fault = "append_open"
    THEN /\ Raises("OSError: combined file")
         /\ temp' = temp \cup {file_name}
         /\ UNCHANGED <<PROCESSED_FILES, sound>>
    ELSE IF fault = "append_write"
    THEN /\ Raises("OSError: combined file")
         /\ temp' = temp \cup {file_name}
         /\ sound' = append_bytes(sound, combined_file_path, Chunk(last_url, "part"))
         /\ UNCHANGED PROCESSED_FILES
    ELSE /\ Returns("Appended")
         /\ sound' = append_bytes(sound, combined_file_path, Chunk(last_url, "all"))
         /\ PROCESSED_FILES' = PROCESSED_FILES \cup {file_name}
         /\ temp' = temp \ {file_name}

\* combine_last_audio without the test of lines 38-40
combine_last_audio_no_skip(combined_file_path, text) ==
    LET last_url == last_audio_url(text) IN
    IF last_url = None
    THEN /\ Returns("No audio URLs found")
         /\ UNCHANGED <<PROCESSED_FILES, sound, temp>>
    ELSE LET file_name == audio_file_name(last_url) IN
         IF file_name = None
         THEN /\ Raises("IndexError")
              /\ UNCHANGED <<PROCESSED_FILES, sound, temp>>
         ELSE \E fault \in Faults :
                 download_and_append(combined_file_path, last_url, file_name, fault)

\* Lines 25-66, given the body `text` of the playlist response.
combine_last_audio(combined_file_path, text) ==
    LET last_url == last_audio_url(text) IN
    IF last_url = None
    THEN /\ Returns("No audio URLs found")
         /\ UNCHANGED <<PROCESSED_FILES, sound, temp>>
    ELSE LET file_name == audio_file_name(last_url) IN
         IF file_name = None
         THEN /\ Raises("IndexError")
              /\ UNCHANGED <<PROCESSED_FILES, sound, temp>>
         ELSE IF file_name \in PROCESSED_FILES
         THEN /\ Returns("Skipping already processed file")
              /\ UNCHANGED <<PROCESSED_FILES, sound, temp>>
         ELSE \E fault \in Faults :
                 download_and_append(combined_file_path, last_url, file_name, fault)

\* The call at line 176.
fetch_and_combine_last_audio ==
    /\ pc = "cycle"
    /\ \/ \* requests.get(api_url) or raise_for_status raises RequestException
          /\ Returns("Error fetching playlist")
          /\ response_text' = None
          /\ UNCHANGED <<PROCESSED_FILES, sound, temp>>
       \/ \E text \in Playlists :
             /\ response_text' = text
             /\ combine_last_audio(current_combined_file, text)
    /\ UNCHANGED <<now, clock, schedule_file, api_file, schedule, API_URL, period,
                   current_period, current_combined_file>>

----------------------------------------------------------------------------
(* The poll loop *)

\* schedule files the poll loop may find
ScheduleFiles ==
    {MissingFile,
     File("ok", <<Line_0900_1000>>),
     File("ok", <<Line_2300_0100, Line_0930_1200>>),
     File("ok", <<Line_BadTime, Line_0900_1000>>)}

\* times of day at which the poll loop runs
LoopTimes == {TimeOf(0, 15, 0), TimeOf(9, 0, 0), TimeOf(10, 0, 30), TimeOf(23, 59, 59)}

Before(a, b) == a[1] < b[1] \/ (a[1] = b[1] /\ a[2] <= b[2])

\* the readings datetime.now() may give after the reading `last`
Readings(last) == {r \in Days \X LoopTimes : Before(last, r)}

\* the readings the second datetime.now() of an iteration may give: that of the
\* first, or the start of the next day when midnight passes between the two
LaterReadings(first) ==
    {first} \cup (IF first[2] = TimeOf(23, 59, 59) /\ first[1] + 1 \in Days
                  THEN {<<first[1] + 1, 0>>} ELSE {})

\* datetime.now().strftime("%Y%m%d"): the day is kept as it is
strftime_Ymd(reading) == reading[1]

\* update_target with the target built only when there is none yet
update_target_first_only ==
    /\ clock' = now'
    /\ IF period' # current_period
       THEN /\ current_period' = period'
            /\ IF current_period' # None /\ current_combined_file = None
               THEN current_combined_file' =
                        combined_path(strftime_Ymd(now'), current_period')
               ELSE UNCHANGED current_combined_file
       ELSE UNCHANGED <<current_period, current_combined_file>>

\* Lines 163-172: the tracked period and the target follow the resolved period.
update_target ==
    IF period' # current_period
    THEN /\ current_period' = period'
         /\ IF current_period' # None
            THEN \E later \in LaterReadings(now') :
                    /\ current_combined_file' =
                           combined_path(strftime_Ymd(later), current_period')
                    /\ clock' = later
            ELSE /\ UNCHANGED current_combined_file
                 /\ clock' = now'
    ELSE /\ UNCHANGED <<current_period, current_combined_file>>
         /\ clock' = now'

\* One iteration of `while True` (lines 149-180) up to the call of
\* fetch_and_combine_last_audio, or through the sleep when it makes no call.
main_loop ==
    /\ pc = "loop"
    /\ schedule_file' \in ScheduleFiles
    /\ schedule' = load_schedule_conf(schedule_file')
    /\ api_file' \in ApiFiles
    /\ API_URL' = load_api_url(api_file')
    /\ now' \in Readings(clock)
    /\ response_text' = None
    /\ IF NoValidUrl(API_URL')
       THEN /\ pc' = "loop"
            /\ out' = "No valid API URL"
            /\ clock' = now'
            /\ UNCHANGED <<period, current_period, current_combined_file>>
       ELSE /\ period' = get_current_period(schedule', now'[2])
            /\ update_target
            /\ IF current_period' # None
               THEN /\ pc' = "cycle"
                    /\ out' = IF period' # current_period THEN "New period detected" ELSE ""
               ELSE /\ pc' = "loop"
                    /\ out' = "No active period"
    /\ UNCHANGED <<PROCESSED_FILES, sound, temp>>

Init ==
    /\ pc = "loop"
    /\ now = <<1, 0>>
    /\ clock = <<1, 0>>
    /\ schedule_file = MissingFile
    /\ api_file = "missing"
    /\ schedule = <<>>
    /\ API_URL = NoneUrl
    /\ period = None
    /\ current_period = None
    /\ current_combined_file = None
    /\ PROCESSED_FILES = {}
    /\ sound = <<>>
    /\ temp = {}
    /\ response_text = None
    /\ out = ""

Next == main_loop \/ fetch_and_combine_last_audio

Spec == Init /\ [][Next]_vars

----------------------------------------------------------------------------
(* The schedule functions on their own: load_schedule_conf on a schedule file  *)
(* of at most MaxLines lines, then get_current_period on the schedule it       *)
(* returns at a time of Times.  pc is the function about to be called, or      *)
(* "returned" after both.                                                      *)

InitSchedule ==
    /\ pc = "load_schedule_conf"
    /\ schedule_file \in AllScheduleFiles
    /\ now \in {1} \X Times
    /\ clock = now
    /\ api_file = "missing"
    /\ schedule = <<>>
    /\ API_URL = NoneUrl
    /\ period = None
    /\ current_period = None
    /\ current_combined_file = None
    /\ PROCESSED_FILES = {}
    /\ sound = <<>>
    /\ temp = {}
    /\ response_text = None
    /\ out = ""

LoadSchedule ==
    /\ pc = "load_schedule_conf"
    /\ schedule' = load_schedule_conf(schedule_file)
    /\ pc' = "get_current_period"
    /\ UNCHANGED <<now, clock, schedule_file, api_file, API_URL, period, current_period,
                   current_combined_file, PROCESSED_FILES, sound, temp, response_text, out>>

ResolvePeriod ==
    /\ pc = "get_current_period"
    /\ period' = get_current_period(schedule, now[2])
    /\ pc' = "returned"
    /\ UNCHANGED <<now, clock, schedule_file, api_file, schedule, API_URL, current_period,
                   current_combined_file, PROCESSED_FILES, sound, temp, response_text, out>>

NextSchedule == LoadSchedule \/ ResolvePeriod

SpecSchedule == InitSchedule /\ [][NextSchedule]_vars

----------------------------------------------------------------------------
(* Claims about the schedule functions, checked under SpecSchedule *)

\* a period (start, end) matches the time t: boundaries included, a period with
\* start > end wraps around midnight
Matches(w, t) ==
    IF w[1] <= w[2] THEN w[1] <= t /\ t <= w[2] ELSE t >= w[1] \/ t <= w[2]

\* the indices of the periods of sched that match t
MatchingIndices(sched, t) == {i \in 1..Len(sched) : Matches(sched[i], t)}

\* the lowest index of a non-empty set of indices
Lowest(I) == CHOOSE i \in I : \A j \in I : i <= j

\* C6: get_current_period returns the first period in list order that matches the
\* time (start <= t <= end for a normal period, t >= start or t <= end for a
\* wrap-around one, boundaries included), and None iff no period matches.
C6_FirstMatchingPeriod ==
    pc = "returned" =>
        LET I == MatchingIndices(schedule, now[2]) IN
        /\ (period = None) <=> (I = {})
        /\ I # {} => period = schedule[Lowest(I)]

\* C6 witness: two different periods of the schedule match the time, which is the
\* end of the first, and the first is the one returned.
C6_Witness_OverlapFirstWins ==
    /\ pc = "returned"
    /\ Len(schedule) = 2
    /\ schedule[1] # schedule[2]
    /\ MatchingIndices(schedule, now[2]) = {1, 2}
    /\ now[2] = schedule[1][2]
    /\ period = schedule[1]

\* the period a line holds when it is read on its own, in a sequence of at most one
LineWindow(line) ==
    LET parts == str_split(str_strip(line), "-") IN
    IF Len(parts) = 2 /\ strptime_HM(parts[1]) # None /\ strptime_HM(parts[2]) # None
    THEN <<<<strptime_HM(parts[1])[1], strptime_HM(parts[2])[1]>>>>
    ELSE <<>>

RECURSIVE WellFormedWindows(_)
WellFormedWindows(lines) ==
    IF lines = <<>> THEN <<>>
    ELSE LineWindow(Head(lines)) \o WellFormedWindows(Tail(lines))

\* C7: the loaded schedule is exactly the sequence of the well-formed lines of the
\* schedule file, in file order; malformed lines are skipped wherever they stand.
C7_AllWellFormedLinesLoaded ==
    pc \in {"get_current_period", "returned"} =>
        schedule = WellFormedWindows(schedule_file.lines)

----------------------------------------------------------------------------
(* Claims about the poll loop, checked under Spec *)

\* the name under which the segment of a chunk is marked
ChunkName(chunk) == audio_file_name(chunk.url)

\* the places <<path, index>> of the chunks of the combined files
Places(files) == UNION {{<<p, i>> : i \in 1..Len(files[p])} : p \in DOMAIN files}

\* the length of a combined file, 0 if it does not exist
Size(files, p) == IF p \in DOMAIN files THEN Len(files[p]) ELSE 0

\* the indices of the chunks that this step appends to the file p
Appended(p) == (Size(sound, p) + 1)..Size(sound', p)

\* the name of the last .aac reference of a playlist body, None if it has none
\* or the reference is malformed
LastName(text) ==
    IF text = None THEN None
    ELSE IF last_audio_url(text) = None THEN None
    ELSE audio_file_name(last_audio_url(text))

\* C1: a segment whose name is in PROCESSED_FILES is never appended again, every
\* name occurs at most once over all combined files, and PROCESSED_FILES never
\* loses an element.
C1_NeverAppendedAgain ==
    [][/\ PROCESSED_FILES \subseteq PROCESSED_FILES'
       /\ sound' # sound =>
             /\ \A p \in DOMAIN sound' : \A i \in Appended(p) :
                   ChunkName(sound'[p][i]) \notin PROCESSED_FILES
             /\ \A a, b \in Places(sound') :
                   ChunkName(sound'[a[1]][a[2]]) = ChunkName(sound'[b[1]][b[2]]) => a = b
      ]_vars

\* C1 witness: a cycle skips a segment that was appended to the combined file of
\* another period.
C1_Witness_SkippedAfterPeriodChange ==
    /\ out = "Skipping already processed file"
    /\ LastName(response_text) \in PROCESSED_FILES
    /\ \E a \in Places(sound) :
          /\ a[1] # current_combined_file
          /\ ChunkName(sound[a[1]][a[2]]) = LastName(response_text)

\* C2: a name is in PROCESSED_FILES iff the whole segment was appended to a
\* combined file, and the combined files hold no bytes of a segment that is not
\* marked (a failed cycle leaves none).
C2_ProcessedIffAppended ==
    /\ \A name \in PROCESSED_FILES : \E a \in Places(sound) :
          /\ ChunkName(sound[a[1]][a[2]]) = name
          /\ sound[a[1]][a[2]].bytes = "all"
    /\ \A a \in Places(sound) : ChunkName(sound[a[1]][a[2]]) \in PROCESSED_FILES

\* C3: no error ends the process; the loop always reaches its next iteration.
C3_NoErrorIsFatal == pc # "crashed"

\* the name of the target the program builds for a period on a day
TargetName(day, w) == <<"sound", day, strftime_HM(w[1]), strftime_HM(w[2])>>

C5_NoWriteToStalePeriod ==
    [][/\ pc' = "cycle" =>
             /\ period' # None
             /\ period' = get_current_period(schedule', now'[2])
             /\ current_period' = period'
             /\ current_combined_file' # None
             /\ current_combined_file'[3] = strftime_HM(period'[1])
             /\ current_combined_file'[4] = strftime_HM(period'[2])
       /\ \A p \in DOMAIN sound' : (sound' # sound /\ Appended(p) # {}) =>
             /\ pc = "cycle"
             /\ period # None
             /\ period = get_current_period(schedule, now[2])
             /\ p = current_combined_file
             /\ p[3] = strftime_HM(period[1])
             /\ p[4] = strftime_HM(period[2])
      ]_vars

\* C5 witness: a segment is appended to the combined file of one period while the
\* combined file of another period of the same day exists.
C5_Witness_AppendAfterPeriodChange ==
    /\ out = "Appended"
    /\ current_combined_file \in DOMAIN sound
    /\ \E p \in DOMAIN sound :
          /\ p # current_combined_file
          /\ p[2] = current_combined_file[2]

\* C8: a failed playlist or segment request ends only the cycle: the combined
\* files, PROCESSED_FILES, the tracked period and the target are as before, the
\* loop goes on, the segment stays unmarked, and a cycle whose last reference is
\* unmarked always attempts its download.
C8_FetchFailureAbortsOnlyCycle ==
    [][pc = "cycle" =>
         /\ out' \in {"Error fetching playlist", "Failed to download"} =>
               /\ pc' = "loop"
               /\ UNCHANGED <<sound, PROCESSED_FILES, period, current_period,
                              current_combined_file>>
         /\ out' = "Failed to download" =>
               /\ LastName(response_text') # None
               /\ LastName(response_text') \notin PROCESSED_FILES'
         /\ (LastName(response_text') # None /\ LastName(response_text') \notin PROCESSED_FILES) =>
               out' \in {"Appended", "Failed to download", "OSError: temp file",
                         "OSError: combined file"}
      ]_vars

\* C8 witness: the download of a segment fails in a cycle whose combined file
\* already holds a segment, and the loop is back at its top.
C8_Witness_DownloadFailed ==
    /\ pc = "loop"
    /\ out = "Failed to download"
    /\ current_combined_file \in DOMAIN sound
    /\ LastName(response_text) \notin PROCESSED_FILES

\* C9: a last reference with fewer than three `_`-delimited fields skips the
\* cycle: nothing is downloaded or appended and the loop continues.
C9_MalformedReferenceSkipsCycle ==
    [][(/\ pc = "cycle"
        /\ response_text' # None
        /\ last_audio_url(response_text') # None
        /\ Len(str_split(last_audio_url(response_text'), "_")) < 3) =>
          /\ pc' = "loop"
          /\ UNCHANGED <<PROCESSED_FILES, sound, temp>>
      ]_vars

\* C10: a failure while writing the combined file is recovered: the loop
\* continues and the segment is not marked.
C10_WriteFailureRecovered ==
    [][(pc = "cycle" /\ out' = "OSError: combined file") =>
          /\ pc' = "loop"
          /\ PROCESSED_FILES' = PROCESSED_FILES
      ]_vars

\* the chunks that this step appends, as places of the new combined files
AppendedPlaces == {a \in Places(sound') : a[2] > Size(sound, a[1])}

\* C11: a cycle whose download and write succeed appends its segment exactly once
\* and marks it; a cycle on a playlist whose last segment is marked (the same
\* playlist again) downloads nothing and changes neither PROCESSED_FILES nor a file.
C11_SecondCycleIsNoOp ==
    [][pc = "cycle" =>
         /\ out' = "Appended" =>
               /\ LastName(response_text') \notin PROCESSED_FILES
               /\ LastName(response_text') \in PROCESSED_FILES'
               /\ Cardinality(AppendedPlaces) = 1
               /\ \A a \in AppendedPlaces :
                     /\ sound'[a[1]][a[2]].bytes = "all"
                     /\ ChunkName(sound'[a[1]][a[2]]) = LastName(response_text')
         /\ (LastName(response_text') # None /\ LastName(response_text') \in PROCESSED_FILES) =>
               /\ out' = "Skipping already processed file"
               /\ pc' = "loop"
               /\ UNCHANGED <<PROCESSED_FILES, sound, temp>>
      ]_vars

\* C11 witness: a cycle skips the segment that is the last chunk of the current
\* combined file, appended from the same reference, and that occurs there once.
C11_Witness_SamePlaylistAgain ==
    /\ out = "Skipping already processed file"
    /\ current_combined_file \in DOMAIN sound
    /\ LET file == sound[current_combined_file] IN
          /\ file[Len(file)] = [url |-> last_audio_url(response_text), bytes |-> "all"]
          /\ Cardinality({a \in Places(sound) :
                 ChunkName(sound[a[1]][a[2]]) = LastName(response_text)}) = 1
    /\ temp = {}

\* C12: every append of a cycle goes to the combined file named with the calendar
\* date of the tick (of either clock reading the iteration takes) and with the
\* bounds of the window active on that tick.
C12_AppendGoesToFileOfTickDate ==
    [][(pc = "cycle" /\ sound' # sound) =>
         \A a \in AppendedPlaces :
            /\ period # None
            /\ \E today_date \in {now[1], clock[1]} : a[1] = TargetName(today_date, period)
      ]_vars

\* the numbers of the lines of a playlist that hold a ".aac" reference
AacLines(text) ==
    {i \in 1..Len(str_splitlines(text)) :
        str_contains(str_splitlines(text)[i], <<".", "a", "a", "c">>)}

\* the reference that no other ".aac" reference of the playlist follows
LastReference(text) ==
    str_splitlines(text)[CHOOSE i \in AacLines(text) : \A j \in AacLines(text) : j <= i]

\* C13: a cycle appends at most one segment, that of the last ".aac" reference of
\* the playlist it fetched, and puts it after all bytes the file already had; a
\* playlist without a ".aac" line gives no download and no append.
C13_OnlyLastReferenceAppended ==
    [][pc = "cycle" =>
         /\ Cardinality(AppendedPlaces) <= 1
         /\ \A a \in AppendedPlaces :
               /\ response_text' # None
               /\ AacLines(response_text') # {}
               /\ sound'[a[1]][a[2]].url = LastReference(response_text')
               /\ a[2] = Size(sound, a[1]) + 1
               /\ a[2] = Size(sound', a[1])
               /\ \A i \in 1..Size(sound, a[1]) : sound'[a[1]][i] = sound[a[1]][i]
         /\ (response_text' # None /\ AacLines(response_text') = {}) =>
               /\ out' = "No audio URLs found"
               /\ UNCHANGED <<PROCESSED_FILES, sound, temp>>
      ]_vars

\* C13 witness: a playlist with two references was fetched and the combined file
\* ends with the segment of its second reference, after an earlier segment.
C13_Witness_LastOfTwoAppended ==
    /\ out = "Appended"
    /\ response_text # None
    /\ Cardinality(AacLines(response_text)) = 2
    /\ Size(sound, current_combined_file) = 2
    /\ sound[current_combined_file][2].url = LastReference(response_text)
    /\ sound[current_combined_file][1].url # LastReference(response_text)

\* C14: in every step every combined file keeps its content as a prefix of its new
\* content, and only the current target changes or is created, so that a change of
\* target, also back to an earlier path, removes no byte.
C14_CombinedFilesAppendOnly ==
    [][/\ \A p \in DOMAIN sound :
             /\ p \in DOMAIN sound'
             /\ Len(sound[p]) <= Len(sound'[p])
             /\ SubSeq(sound'[p], 1, Len(sound[p])) = sound[p]
             /\ sound'[p] # sound[p] => (p = current_combined_file /\ p = current_combined_file')
       /\ \A p \in DOMAIN sound' \ DOMAIN sound :
             p = current_combined_file /\ p = current_combined_file'
      ]_vars

\* C14 witness: the target has just changed to a path that already holds bytes,
\* while another combined file holds bytes too.
C14_Witness_BackToEarlierTarget ==
    /\ pc = "cycle"
    /\ out = "New period detected"
    /\ current_combined_file \in DOMAIN sound
    /\ Size(sound, current_combined_file) >= 1
    /\ \E p \in DOMAIN sound : p # current_combined_file

\* C15: when a cycle has returned, with success or with a logged failure, the temp
\* directory holds no scratch file.
C15_NoTempFileAfterCycle == pc = "loop" => temp = {}

\* C17: a tick on which the API URL file is absent or unreadable, or on which no
\* loaded window holds the time of the tick (also when the schedule is missing or
\* empty), fetches no playlist and no segment, and leaves PROCESSED_FILES and the
\* content of every combined file as they were.
C17_IdleTickChangesNothing ==
    [][(/\ pc = "loop"
        /\ \/ api_file' \in {"missing", "unreadable"}
           \/ MatchingIndices(schedule', now'[2]) = {}) =>
         /\ pc' = "loop"
         /\ out' \in {"No valid API URL", "No active period"}
         /\ response_text' = None
         /\ UNCHANGED <<PROCESSED_FILES, sound, temp>>
      ]_vars

\* C17 witness: a tick with a valid URL and a missing schedule came after segments
\* were appended, and found no active period.
C17_Witness_IdleAfterAppends ==
    /\ pc = "loop"
    /\ out = "No active period"
    /\ schedule_file = MissingFile
    /\ schedule = <<>>
    /\ PROCESSED_FILES # {}
    /\ DOMAIN sound # {}

----------------------------------------------------------------------------
(* The poll loop under fair scheduling *)

\* a cycle in which neither the playlist request nor the segment request fails
fetches_succeed ==
    /\ fetch_and_combine_last_audio
    /\ out' \notin {"Error fetching playlist", "Failed to download"}

\* `while True` goes on to its next iteration after every sleep, and the requests
\* of a cycle do not fail for ever.
SpecFair ==
    /\ Init
    /\ [][Next]_vars
    /\ WF_vars(main_loop)
    /\ SF_vars(fetches_succeed)

\* the names of the segments the playlists refer to
SegmentNames == {LastName(text) : text \in Playlists} \ {None}

\* the API URL is available, a window is active, and every playlist fetched has
\* last_name as the name of its last reference
Stays(last_name) ==
    /\ ~NoValidUrl(API_URL)
    /\ period # None
    /\ current_period # None
    /\ response_text # None => LastName(response_text) = last_name

\* last_name is marked and its whole segment is in the active combined file
AppendedAndMarked(last_name) ==
    /\ last_name \in PROCESSED_FILES
    /\ \E a \in Places(sound) :
          /\ ChunkName(sound[a[1]][a[2]]) = last_name
          /\ sound[a[1]][a[2]].bytes = "all"

\* C16: if from some tick on the API URL is available, a window is active and a
\* segment stays the last reference, then, the requests not failing for ever, the
\* segment is eventually appended to a combined file and added to PROCESSED_FILES.
C16_SegmentEventuallyAppended ==
    \A last_name \in SegmentNames :
        <>[]Stays(last_name) => <>AppendedAndMarked(last_name)

====
